---- MODULE Spec2Model ----
(***************************************************************************)
(* Model of the MCDA/TOPSIS ranking of relife_technical:                   *)
(*   services/mcda_topsis.py  topsis_rank_technologies (the engine)        *)
(*   models/mcda.py           McdaTopsisRequest (request validation)       *)
(*   routes/mcda.py           run_topsis (the POST /mcda/topsis handler)   *)
(*   auth/dependencies.py     get_optional_authenticated_user              *)
(*   app.py                   the routers the application includes         *)
(*                                                                         *)
(* Numbers.  The code computes in binary floating point.  The model uses   *)
(* exact integers in fixed units:                                          *)
(*   - raw KPI values and bounds are integers, and a normalised score is   *)
(*     an integer 0..100, rounded down (exact for the bounds widths of     *)
(*     the ranking inputs, which divide 100);                              *)
(*   - a per-KPI weight is counted in units of 1/WeightUnit (1/180), which *)
(*     makes every weight score/15/n an exact integer;                     *)
(*   - S_plus and S_minus are counted in the same unit, the square root    *)
(*     rounded down (the exact squares are kept beside them);              *)
(*   - closeness is counted in units of 1/CloseUnit, rounded down.         *)
(***************************************************************************)
EXTENDS Integers, Sequences, FiniteSets, TLC

VARIABLES
    via,              \* "engine": the function is called; "route": POST /mcda/topsis;
                      \* "app": a request to the application; "none": no request
    profile,          \* the profile argument / payload.profile
    technologies,     \* the technologies argument: a sequence of dicts
    mins_maxes,       \* the bounds argument: dict KPI key -> <<min, max>>
    pc,               \* position of the call
    i,                \* index of the technology the loop of line 171 is at
    cur_w,            \* pillar weights computed for technology i so far
    cur_n,            \* normalised values computed for technology i so far
    weighted_by_tech, \* the list of line 169
    outcome,          \* what the engine call ended in
    response,         \* what the route answered
    credentials,      \* the bearer token of a request: "none", "accepted", "rejected"
    calls,            \* the frames of the invocations that run concurrently
    fn_in,            \* the arguments handed in: of a function applied on its own,
                      \* of each concurrent invocation, or the request line
    fn_out            \* what a function applied on its own returned; the
                      \* current_user or the endpoint a request resolved to

\* the variables the single ranking request never writes
aside == <<credentials, calls, fn_in, fn_out>>

vars == <<via, profile, technologies, mins_maxes, pc, i, cur_w, cur_n,
          weighted_by_tech, outcome, response, aside>>

----------------------------------------------------------------------------
(* Bounds of the model *)

MaxTechs == 2

CloseUnit == 1000

----------------------------------------------------------------------------
(* Fixed data of the engine *)

valid_profiles == {"Environment-Oriented", "Comfort-Oriented", "Financially-Oriented"}

score_total == 15

EEKeys == <<"envelope_kpi", "window_kpi", "heating_system_kpi", "cooling_system_kpi">>

FVKeys == <<"ii_kpi", "aoc_kpi", "irr_kpi", "npv_kpi", "pp_kpi", "arv_kpi">>

REIKeys == <<"st_coverage_kpi", "onsite_res_kpi", "net_energy_export_kpi">>

SEIKeys == <<"embodied_carbon_kpi", "gwp_kpi">>

UCKeys == <<"thermal_comfort_air_temp_kpi", "thermal_comfort_humidity_kpi">>

KpiKeys == EEKeys \o FVKeys \o REIKeys \o SEIKeys \o UCKeys

required_keys == <<"name">> \o KpiKeys

Range(s) == {s[x] : x \in DOMAIN s}

KpiSet == Range(KpiKeys)

Pillars == <<"EE", "FV", "REI", "SEI", "UC">>

PillarKeys(p) ==
    CASE p = "EE" -> EEKeys
      [] p = "FV" -> FVKeys
      [] p = "REI" -> REIKeys
      [] p = "SEI" -> SEIKeys
      [] p = "UC" -> UCKeys

\* the KPIs the calculators normalise with normalize_high; the others use normalize_low
HighKeys == {"irr_kpi", "npv_kpi", "arv_kpi",
             "st_coverage_kpi", "onsite_res_kpi", "net_energy_export_kpi",
             "thermal_comfort_air_temp_kpi", "thermal_comfort_humidity_kpi"}

\* the p_score of the if/elif chain of each calculator; 0 stands for the else branch
PillarScore(p, profile_) ==
    CASE p = "EE" ->
           (CASE profile_ = "Environment-Oriented" -> 3
              [] profile_ = "Comfort-Oriented" -> 2
              [] profile_ = "Financially-Oriented" -> 2
              [] OTHER -> 0)
      [] p = "FV" ->
           (CASE profile_ = "Environment-Oriented" -> 5
              [] profile_ = "Comfort-Oriented" -> 3
              [] profile_ = "Financially-Oriented" -> 1
              [] OTHER -> 0)
      [] p = "REI" ->
           (CASE profile_ = "Environment-Oriented" -> 2
              [] profile_ = "Comfort-Oriented" -> 5
              [] profile_ = "Financially-Oriented" -> 3
              [] OTHER -> 0)
      [] p = "SEI" ->
           (CASE profile_ = "Environment-Oriented" -> 1
              [] profile_ = "Comfort-Oriented" -> 4
              [] profile_ = "Financially-Oriented" -> 5
              [] OTHER -> 0)
      [] p = "UC" ->
           (CASE profile_ = "Environment-Oriented" -> 4
              [] profile_ = "Comfort-Oriented" -> 1
              [] profile_ = "Financially-Oriented" -> 4
              [] OTHER -> 0)

----------------------------------------------------------------------------
(* Arithmetic *)

Min2(a, b) == IF a <= b THEN a ELSE b

Max2(a, b) == IF a >= b THEN a ELSE b

\* weights are counted in units of 1/WeightUnit: 12 is the least common multiple
\* of the pillars' KPI counts 4, 6, 3, 2, 2
WeightUnit == score_total * 12

\* normalize_high without the clamp of line 25
normalize_high_unclamped(v, mn, mx) == ((v - mn) * 100) \div (mx - mn)

normalize_high(v, mn, mx) == Max2(0, Min2(100, ((v - mn) * 100) \div (mx - mn)))

\* normalize_low measuring from the minimum, as normalize_high does
normalize_low_from_min(v, mn, mx) == Max2(0, Min2(100, ((v - mn) * 100) \div (mx - mn)))

normalize_low(v, mn, mx) == Max2(0, Min2(100, ((mx - v) * 100) \div (mx - mn)))

\* pillar_weight giving every KPI the whole weight of its pillar
pillar_weight_undivided(pillar_score, no_kpis_in_pillar) ==
    (pillar_score * WeightUnit) \div score_total

pillar_weight(pillar_score, no_kpis_in_pillar) ==
    (pillar_score * WeightUnit) \div (score_total * no_kpis_in_pillar)

RECURSIVE SqrtBetween(_, _, _)
SqrtBetween(x, lo, hi) ==
    IF lo >= hi THEN lo
    ELSE LET mid == (lo + hi + 1) \div 2
         IN IF mid * mid <= x THEN SqrtBetween(x, mid, hi)
                              ELSE SqrtBetween(x, lo, mid - 1)

\* math.sqrt, rounded down to the unit
Sqrt(x) == SqrtBetween(x, 0, Min2(x, 46340))

RECURSIVE SumSeq(_)
SumSeq(s) == IF s = <<>> THEN 0 ELSE Head(s) + SumSeq(Tail(s))

MaxOf(S) == CHOOSE x \in S : \A y \in S : y <= x

MinOf(S) == CHOOSE x \in S : \A y \in S : x <= y

----------------------------------------------------------------------------
(* The requests the model runs: a bounded family of real inputs *)

Profiles == valid_profiles \cup {"Bogus"}

\* a complete technology dict: envelope_kpi = x, irr_kpi = y, every other KPI 2
MkTech(name, x, y) ==
    [k \in Range(required_keys) |->
        IF k = "name" THEN name
        ELSE IF k = "envelope_kpi" THEN x
        ELSE IF k = "irr_kpi" THEN y
        ELSE 2]

Without(f, ks) == [k \in DOMAIN f \ ks |-> f[k]]

CompleteTechs ==
    {MkTech("A", 1, 1), MkTech("B", 3, 3), MkTech("A", 5, 0),
     MkTech("B", 6, 0), MkTech("B", 1, 1), MkTech("A", 0, 2),
     MkTech("B", 2, 4)}

IncompleteTechs ==
    {Without(MkTech("A", 1, 1), {"gwp_kpi"}),
     Without(MkTech("B", 3, 3), {"irr_kpi", "gwp_kpi"}),
     Without(MkTech("B", 3, 3), {"name", "irr_kpi", "npv_kpi"})}

TechPool == CompleteTechs \cup IncompleteTechs

TechLists == UNION {[1..n -> TechPool] : n \in 0..MaxTechs}

DefaultBounds == [k \in KpiSet |-> <<0, 4>>]

BoundsPool ==
    {DefaultBounds,
     [DefaultBounds EXCEPT !["irr_kpi"] = <<1, 3>>],
     Without(DefaultBounds, {"npv_kpi"}),
     [DefaultBounds EXCEPT !["gwp_kpi"] = <<2, 2>>],
     [DefaultBounds EXCEPT !["envelope_kpi"] = <<4, 0>>]}

----------------------------------------------------------------------------
(* Outcomes of the engine call and answers of the route *)

NoOutcome ==
    [kind |-> "none", exc |-> "", err |-> "", tech |-> "", key |-> "", results |-> <<>>]

Returned(results) ==
    [kind |-> "returned", exc |-> "", err |-> "", tech |-> "", key |-> "",
     results |-> results]

Raised(exc, err, tech, key) ==
    [kind |-> "raised", exc |-> exc, err |-> err, tech |-> tech, key |-> key,
     results |-> <<>>]

\* loc: the locations <<index of the technology, field>> FastAPI lists in the
\* detail of a request-validation error
NoResponse ==
    [status |-> 0, profile |-> "", count |-> 0, ranking |-> <<>>,
     detail |-> "", tech |-> "", key |-> "", loc |-> {}]

EmptyDict == [k \in {} |-> 0]

\* where the engine hands control back: to its caller, or to run_topsis
AfterEngine == IF via = "engine" THEN "done" ELSE "respond"

Init ==
    /\ via \in {"engine", "route"}
    /\ profile \in Profiles
    /\ technologies \in TechLists
    /\ mins_maxes \in BoundsPool
    /\ pc = IF via = "engine" THEN "call" ELSE "request"
    /\ i = 0
    /\ cur_w = EmptyDict
    /\ cur_n = EmptyDict
    /\ weighted_by_tech = <<>>
    /\ outcome = NoOutcome
    /\ response = NoResponse
    /\ credentials = "none"
    /\ calls = <<>>
    /\ fn_in = <<>>
    /\ fn_out = <<>>

----------------------------------------------------------------------------
(* topsis_rank_technologies: validation and the per-technology loop *)

\* CheckProfile as the legacy calculators do it: nothing is checked up front
CheckProfileLegacy ==
    /\ pc = "call"
    /\ pc' = "loop"
    /\ i' = 1
    /\ UNCHANGED <<aside, via, profile, technologies, mins_maxes, cur_w, cur_n,
                   weighted_by_tech, outcome, response>>

\* lines 11-13
CheckProfile ==
    /\ pc = "call"
    /\ IF profile \notin valid_profiles
       THEN /\ outcome' = Raised("ValueError", "invalid_profile", "", "")
            /\ pc' = AfterEngine
            /\ i' = i
       ELSE /\ outcome' = outcome
            /\ pc' = "loop"
            /\ i' = 1
    /\ UNCHANGED <<aside, via, profile, technologies, mins_maxes, cur_w, cur_n,
                   weighted_by_tech, response>>

\* tech.get('name', 'unknown')
TechName(tech) == IF "name" \in DOMAIN tech THEN tech["name"] ELSE "unknown"

\* MissingKey with a message that does not name the technology
MissingKeyAnonymous(tech, k) == Raised("KeyError", "missing_key", "", k)

\* the KeyError of line 174
MissingKey(tech, k) == Raised("KeyError", "missing_key", TechName(tech), k)

\* the first key of keys, in order, that is in the set bad; "" when none is
FirstKey(keys, bad) ==
    LET at == {j \in DOMAIN keys : keys[j] \in bad}
    IN IF at = {} THEN "" ELSE keys[MinOf(at)]

\* CheckKeys that skips a technology with a missing key instead of raising
CheckKeysSkipping ==
    /\ pc = "loop"
    /\ i <= Len(technologies)
    /\ IF Range(required_keys) \subseteq DOMAIN technologies[i]
       THEN /\ pc' = "EE"
            /\ i' = i
       ELSE /\ pc' = "loop"
            /\ i' = i + 1
    /\ UNCHANGED <<aside, via, profile, technologies, mins_maxes, cur_w, cur_n,
                   weighted_by_tech, outcome, response>>

\* lines 171-174: the required keys of technology i
CheckKeys ==
    /\ pc = "loop"
    /\ i <= Len(technologies)
    /\ LET tech == technologies[i]
           k == FirstKey(required_keys, Range(required_keys) \ DOMAIN tech)
       IN IF k # ""
          THEN /\ outcome' = MissingKey(tech, k)
               /\ pc' = AfterEngine
          ELSE /\ outcome' = outcome
               /\ pc' = "EE"
    /\ UNCHANGED <<aside, via, profile, technologies, mins_maxes, i, cur_w, cur_n,
                   weighted_by_tech, response>>

\* lines 15-21: "" when mm(key) returns, else the error it raises
MmFault(bounds, key) ==
    IF key \notin DOMAIN bounds THEN "missing_bounds"
    ELSE IF bounds[key][2] <= bounds[key][1] THEN "invalid_bounds"
    ELSE ""

mm(bounds, key) ==
    IF MmFault(bounds, key) = "missing_bounds"
    THEN Raised("KeyError", "missing_bounds", "", key)
    ELSE IF MmFault(bounds, key) = "invalid_bounds"
    THEN Raised("ValueError", "invalid_bounds", "", key)
    ELSE Returned(bounds[key])

\* Normalize with every KPI taken as higher-is-better
NormalizeAllHigh(k, v, mn, mx) == normalize_high(v, mn, mx)

\* the normalisation each calculator applies to a KPI
Normalize(k, v, mn, mx) ==
    IF k \in HighKeys THEN normalize_high(v, mn, mx) ELSE normalize_low(v, mn, mx)

NextPillar(p) ==
    CASE p = "EE" -> "FV"
      [] p = "FV" -> "REI"
      [] p = "REI" -> "SEI"
      [] p = "SEI" -> "UC"
      [] p = "UC" -> "append"

\* One calculator call of lines 177-216: the arguments are evaluated first, left
\* to right (each mm(key) may raise), then the calculator normalises its KPIs,
\* looks up the pillar score of the profile and computes the weight.
Calculate(p) ==
    /\ pc = p
    /\ LET tech == technologies[i]
           keys == PillarKeys(p)
           bad == FirstKey(keys, {k \in Range(keys) : MmFault(mins_maxes, k) # ""})
           score == PillarScore(p, profile)
       IN IF bad # ""
          THEN /\ outcome' = mm(mins_maxes, bad)
               /\ pc' = AfterEngine
               /\ UNCHANGED <<cur_w, cur_n>>
          ELSE /\ cur_n' = cur_n @@
                      [k \in Range(keys) |->
                          Normalize(k, tech[k], mm(mins_maxes, k).results[1],
                                    mm(mins_maxes, k).results[2])]
               /\ IF score = 0
                  THEN /\ outcome' = Raised("ValueError", "invalid_profile_in_calculator", "", "")
                       /\ pc' = AfterEngine
                       /\ cur_w' = cur_w
                  ELSE /\ outcome' = outcome
                       /\ pc' = NextPillar(p)
                       /\ cur_w' = cur_w @@ (p :> pillar_weight(score, Len(keys)))
    /\ UNCHANGED <<aside, via, profile, technologies, mins_maxes, i, weighted_by_tech,
                   response>>

calculate_ee == Calculate("EE")

calculate_fv == Calculate("FV")

calculate_rei == Calculate("REI")

calculate_sei == Calculate("SEI")

calculate_uc == Calculate("UC")

PillarOf(k) == CHOOSE p \in Range(Pillars) : k \in Range(PillarKeys(p))

\* lines 218-245
WeightedKpis(w, n) == [k \in KpiSet |-> w[PillarOf(k)] * n[k]]

\* AppendWeighted keyed by name: a row replaces the earlier row of the same name
AppendWeightedByName(list, name, weighted_kpis) ==
    LET keep == {j \in DOMAIN list : list[j].name # name}
        Kept[n \in 0..Len(list)] ==
            IF n = 0 THEN <<>>
            ELSE IF n \in keep THEN Append(Kept[n - 1], list[n]) ELSE Kept[n - 1]
    IN Append(Kept[Len(list)], [name |-> name, weighted_kpis |-> weighted_kpis])

\* line 247
AppendWeighted(list, name, weighted_kpis) ==
    Append(list, [name |-> name, weighted_kpis |-> weighted_kpis])

AppendTech ==
    /\ pc = "append"
    /\ weighted_by_tech' =
          AppendWeighted(weighted_by_tech, technologies[i]["name"],
                         WeightedKpis(cur_w, cur_n))
    /\ cur_w' = EmptyDict
    /\ cur_n' = EmptyDict
    /\ i' = i + 1
    /\ pc' = "loop"
    /\ UNCHANGED <<aside, via, profile, technologies, mins_maxes, outcome, response>>

----------------------------------------------------------------------------
(* topsis_rank_technologies: ideal points, distances, closeness, sort *)

\* lines 254-255
ideal_best(rows) ==
    [k \in KpiSet |-> MaxOf({rows[j].weighted_kpis[k] : j \in DOMAIN rows})]

\* ideal_worst as an absolute point (all zeros) instead of the batch minimum
ideal_worst_absolute(rows) == [k \in KpiSet |-> 0]

ideal_worst(rows) ==
    [k \in KpiSet |-> MinOf({rows[j].weighted_kpis[k] : j \in DOMAIN rows})]

\* SquaredDistance over the last KPI alone
SquaredDistanceLastKpi(v, ideal) ==
    LET k == KpiKeys[Len(KpiKeys)]
    IN  (v[k] - ideal[k]) * (v[k] - ideal[k])

\* sum((v[k] - ideal[k]) ** 2 for k in kpi_keys)
SquaredDistance(v, ideal) ==
    SumSeq([j \in DOMAIN KpiKeys |->
               (v[KpiKeys[j]] - ideal[KpiKeys[j]]) * (v[KpiKeys[j]] - ideal[KpiKeys[j]])])

\* Closeness with the distances swapped
ClosenessSwapped(s_plus, s_minus) ==
    LET denom == s_plus + s_minus
    IN IF denom # 0 THEN (s_plus * CloseUnit) \div denom ELSE 0

\* lines 262-263
Closeness(s_plus, s_minus) ==
    LET denom == s_plus + s_minus
    IN IF denom # 0 THEN (s_minus * CloseUnit) \div denom ELSE 0

\* lines 258-275, one row (S_plus_sq and S_minus_sq are the exact squares)
ResultRow(t, best, worst) ==
    LET sp2 == SquaredDistance(t.weighted_kpis, best)
        sm2 == SquaredDistance(t.weighted_kpis, worst)
    IN [name |-> t.name,
        closeness |-> Closeness(Sqrt(sp2), Sqrt(sm2)),
        S_plus |-> Sqrt(sp2),
        S_minus |-> Sqrt(sm2),
        S_plus_sq |-> sp2,
        S_minus_sq |-> sm2]

\* Before without reverse=True: an ascending sort
BeforeAscending(a, b) == a.closeness <= b.closeness

\* an order that puts a row ahead of the earlier rows it ties with
BeforeStrict(a, b) == a.closeness > b.closeness

\* the key order of results.sort(key=closeness, reverse=True)
Before(a, b) == a.closeness >= b.closeness

\* list.sort is stable: a row goes behind every row that is not behind it
InsertSorted(sorted, r) ==
    LET pos == Cardinality({j \in DOMAIN sorted : Before(sorted[j], r)})
    IN SubSeq(sorted, 1, pos) \o <<r>> \o SubSeq(sorted, pos + 1, Len(sorted))

RECURSIVE SortResults(_)
SortResults(rows) ==
    IF rows = <<>> THEN <<>>
    ELSE InsertSorted(SortResults(SubSeq(rows, 1, Len(rows) - 1)), rows[Len(rows)])

\* lines 257-275: one result row per weighted technology, in input order
ScoreRows(rows) ==
    [j \in DOMAIN rows |-> ResultRow(rows[j], ideal_best(rows), ideal_worst(rows))]

\* lines 249-278
Rank(rows) ==
    IF rows = <<>> THEN <<>>
    ELSE SortResults(ScoreRows(rows))

Finish ==
    /\ pc = "loop"
    /\ i > Len(technologies)
    /\ outcome' = Returned(Rank(weighted_by_tech))
    /\ pc' = AfterEngine
    /\ UNCHANGED <<aside, via, profile, technologies, mins_maxes, i, cur_w, cur_n,
                   weighted_by_tech, response>>

----------------------------------------------------------------------------
(* POST /mcda/topsis *)

\* McdaTopsisRequest: every field of every TechnologyKpis is required and
\* technologies has min_items=1; a payload that fails is answered 422
RequestValid(techs) ==
    /\ Len(techs) >= 1
    /\ \A j \in DOMAIN techs : Range(required_keys) \subseteq DOMAIN techs[j]

\* the 422 answer FastAPI gives to a payload that fails the request model
RequestRejected(techs) ==
    [NoResponse EXCEPT
        !.status = 422,
        !.detail = "request_validation",
        !.loc = {l \in (DOMAIN techs) \X Range(required_keys) :
                    l[2] \notin DOMAIN techs[l[1]]}
                \cup (IF Len(techs) >= 1 THEN {} ELSE {<<0, "technologies">>})]

ValidateRequest ==
    /\ pc = "request"
    /\ IF RequestValid(technologies)
       THEN /\ pc' = "call"
            /\ response' = response
       ELSE /\ pc' = "done"
            /\ response' = RequestRejected(technologies)
    /\ UNCHANGED <<aside, via, profile, technologies, mins_maxes, i, cur_w, cur_n,
                   weighted_by_tech, outcome>>

\* RankedTechnology with the two distances exchanged
RankedTechnologySwapped(r) ==
    [name |-> r.name, closeness |-> r.closeness, S_plus |-> r.S_minus,
     S_minus |-> r.S_plus]

\* RankedTechnology(name, closeness, S_plus, S_minus)
RankedTechnology(r) ==
    [name |-> r.name, closeness |-> r.closeness, S_plus |-> r.S_plus,
     S_minus |-> r.S_minus]

\* run_topsis lines 35-66: the response, or the HTTPException of each handler,
\* for the engine outcome o of a payload with profile prof
Answer(o, prof) ==
    IF o.kind = "returned"
    THEN [NoResponse EXCEPT !.status = 200,
                            !.profile = prof,
                            !.count = Len(o.results),
                            !.ranking = [j \in DOMAIN o.results |->
                                            RankedTechnology(o.results[j])]]
    ELSE IF o.exc \in {"KeyError", "ValueError"}
    THEN [NoResponse EXCEPT !.status = 422, !.detail = o.err,
                            !.tech = o.tech, !.key = o.key]
    ELSE [NoResponse EXCEPT !.status = 500, !.detail = "Failed to run TOPSIS ranking."]

\* run_topsis without the handler of lines 51-55: a KeyError falls through to
\* the handler of Exception
run_topsis_without_KeyError_handler(o) ==
    IF o.kind = "raised" /\ o.exc = "KeyError"
    THEN [NoResponse EXCEPT !.status = 500, !.detail = "Failed to run TOPSIS ranking."]
    ELSE Answer(o, profile)

run_topsis(o) == Answer(o, profile)

Respond ==
    /\ pc = "respond"
    /\ response' = run_topsis(outcome)
    /\ pc' = "done"
    /\ UNCHANGED <<aside, via, profile, technologies, mins_maxes, i, cur_w, cur_n,
                   weighted_by_tech, outcome>>

----------------------------------------------------------------------------

Next ==
    \/ ValidateRequest
    \/ CheckProfile
    \/ CheckKeys
    \/ calculate_ee
    \/ calculate_fv
    \/ calculate_rei
    \/ calculate_sei
    \/ calculate_uc
    \/ AppendTech
    \/ Finish
    \/ Respond

Spec == Init /\ [][Next]_vars

----------------------------------------------------------------------------
(* State functions the properties use *)

Results == outcome.results

BoundsValid(bounds) == \A k \in KpiSet : MmFault(bounds, k) = ""

\* a normalisation or a weight has been computed for some technology
NumericWork == weighted_by_tech # <<>> \/ DOMAIN cur_n # {} \/ DOMAIN cur_w # {}

LacksKpi(tech) == ~(KpiSet \subseteq DOMAIN tech)

\* how many rows of the sequence rows carry the name n
NameCount(rows, n) == Cardinality({j \in DOMAIN rows : rows[j]["name"] = n})

SortedDescending(rows) ==
    \A a, b \in DOMAIN rows : a < b => rows[a].closeness >= rows[b].closeness

----------------------------------------------------------------------------
(* Properties *)

\* C1: every ranking the engine returns (and every ranking the route answers
\* with) is ordered by closeness descending: for all positions a < b,
\* closeness[a] >= closeness[b].
C1_SortedByCloseness ==
    /\ outcome.kind = "returned" => SortedDescending(Results)
    /\ response.status = 200 => SortedDescending(response.ranking)

\* C1 witness: a returned ranking of two technologies in which the sort moved
\* the second technology of the input in front of the first.
C1_Witness ==
    /\ outcome.kind = "returned"
    /\ Len(Results) = 2
    /\ Results[1].closeness > Results[2].closeness
    /\ technologies[1]["name"] # technologies[2]["name"]
    /\ Results[1].name = technologies[2]["name"]

\* C2: the ranking operation is atomic: a call that has ended either returned a
\* ranking with one row per technology of the request, or raised a single error
\* and carries no ranking; the route answers either 200 with a ranking of every
\* technology or an error status with an empty ranking.
C2_Atomic ==
    /\ outcome.kind = "returned" => Len(Results) = Len(technologies)
    /\ outcome.kind = "raised" => Results = <<>> /\ outcome.err # ""
    /\ (pc = "done" /\ via = "engine") => outcome.kind \in {"returned", "raised"}
    /\ (pc = "done" /\ via = "route") =>
          \/ /\ response.status = 200
             /\ Len(response.ranking) = Len(technologies)
             /\ response.count = Len(technologies)
          \/ /\ response.status # 200
             /\ response.ranking = <<>>

\* C2 witness: the call raised after an earlier technology of the batch had
\* already been weighted, and no ranking came back.
C2_Witness ==
    /\ outcome.kind = "raised"
    /\ weighted_by_tech # <<>>
    /\ Results = <<>>

\* C3 (as claimed): whenever the engine ends in a validation error, no
\* normalisation or weight has been computed for any technology of the batch.
C3_NoNumericWorkBeforeError ==
    outcome.kind = "raised" => ~NumericWork

\* C4: with a profile outside the three valid strings the engine raises the
\* invalid-profile ValueError whatever the technologies and bounds are: it
\* never enters the loop, never computes anything and never returns a ranking.
C4_InvalidProfileRejected ==
    profile \notin valid_profiles =>
        /\ pc \in {"request", "call", "respond", "done"}
        /\ ~NumericWork
        /\ outcome.kind # "returned"
        /\ outcome.kind = "raised" =>
              outcome.exc = "ValueError" /\ outcome.err = "invalid_profile"
        /\ (pc = "done" /\ via = "engine") => outcome.kind = "raised"
        /\ response.status # 200

\* C4 witness: the invalid-profile error raised for an empty technologies list
\* together with faulty bounds.
C4_Witness ==
    /\ profile \notin valid_profiles
    /\ outcome.kind = "raised"
    /\ outcome.err = "invalid_profile"
    /\ technologies = <<>>
    /\ ~BoundsValid(mins_maxes)

\* C5: with a valid profile and valid bounds, when some technology of the
\* request (every technology carrying a name) lacks a required KPI key, the
\* engine raises the missing-key KeyError, which names a technology of the
\* request and a KPI key that this technology lacks, and returns no ranking.
C5_MissingKpiReported ==
    ( /\ outcome.kind # "none"
      /\ profile \in valid_profiles
      /\ BoundsValid(mins_maxes)
      /\ \A j \in DOMAIN technologies : "name" \in DOMAIN technologies[j]
      /\ \E j \in DOMAIN technologies : LacksKpi(technologies[j]) )
    =>
    ( /\ outcome.kind = "raised"
      /\ outcome.exc = "KeyError"
      /\ outcome.err = "missing_key"
      /\ Results = <<>>
      /\ \E j \in DOMAIN technologies :
            /\ LacksKpi(technologies[j])
            /\ \A h \in 1..(j - 1) : ~LacksKpi(technologies[h])
            /\ outcome.tech = technologies[j]["name"]
            /\ outcome.key \in KpiSet \ DOMAIN technologies[j] )

\* C5 witness: the second technology of the batch lacks gwp_kpi and the error
\* names it and that key.
C5_Witness ==
    /\ outcome.kind = "raised"
    /\ outcome.err = "missing_key"
    /\ outcome.key = "gwp_kpi"
    /\ Len(technologies) = 2
    /\ ~LacksKpi(technologies[1])
    /\ outcome.tech = technologies[2]["name"]

\* C6 (as claimed): with a valid profile, for every technologies list, bounds
\* that lack a KPI or hold a pair with max <= min make the engine raise the
\* missing-bounds or invalid-bounds error naming such a KPI.
C6_FaultyBoundsRejected ==
    ( /\ outcome.kind # "none"
      /\ profile \in valid_profiles
      /\ ~BoundsValid(mins_maxes) )
    =>
    ( /\ outcome.kind = "raised"
      /\ outcome.err \in {"missing_bounds", "invalid_bounds"}
      /\ outcome.key \in KpiSet
      /\ MmFault(mins_maxes, outcome.key) = outcome.err )

\* C7 (as claimed): ranking an empty technologies list with a valid profile
\* gives an empty result list, from the engine and from the rank request.
C7_EmptyListRanksEmpty ==
    (pc = "done" /\ technologies = <<>> /\ profile \in valid_profiles) =>
        /\ via = "engine" => outcome = Returned(<<>>)
        /\ via = "route" =>
              response.status = 200 /\ response.ranking = <<>> /\ response.count = 0

\* C8: a request of exactly one technology with a valid profile and valid
\* bounds returns exactly one row, with closeness 0 and S_plus = S_minus = 0;
\* it never fails.
C8_SingleTechnology ==
    ( /\ Len(technologies) = 1
      /\ ~LacksKpi(technologies[1])
      /\ "name" \in DOMAIN technologies[1]
      /\ profile \in valid_profiles
      /\ BoundsValid(mins_maxes) )
    =>
    ( /\ outcome.kind # "raised"
      /\ outcome.kind = "returned" =>
            /\ Len(Results) = 1
            /\ Results[1].closeness = 0
            /\ Results[1].S_plus = 0
            /\ Results[1].S_minus = 0
      /\ pc = "done" =>
            /\ outcome.kind = "returned"
            /\ via = "route" =>
                  /\ response.status = 200
                  /\ response.ranking[1].closeness = 0 )

\* C8 witness: a returned ranking of a single technology whose envelope_kpi
\* lies outside its bounds.
C8_Witness ==
    /\ outcome.kind = "returned"
    /\ Len(technologies) = 1
    /\ Len(Results) = 1
    /\ technologies[1]["envelope_kpi"] > mins_maxes["envelope_kpi"][2]

\* C9: in every row of every returned ranking closeness lies in [0, 1]
\* (0..CloseUnit), S_plus and S_minus are non-negative, and when
\* S_plus + S_minus is not zero closeness is S_minus / (S_plus + S_minus)
\* (rounded down to the unit).
C9_ClosenessRange ==
    outcome.kind = "returned" =>
        \A j \in DOMAIN Results :
            LET r == Results[j]
                denom == r.S_plus + r.S_minus
            IN /\ r.closeness >= 0
               /\ r.closeness <= CloseUnit
               /\ r.S_plus >= 0
               /\ r.S_minus >= 0
               /\ denom # 0 =>
                     /\ r.closeness * denom <= r.S_minus * CloseUnit
                     /\ r.S_minus * CloseUnit < (r.closeness + 1) * denom

\* C9 witness: a returned row whose closeness is strictly between 0 and 1.
C9_Witness ==
    /\ outcome.kind = "returned"
    /\ \E j \in DOMAIN Results :
          Results[j].closeness > 0 /\ Results[j].closeness < CloseUnit

\* C10: a returned ranking has exactly one row per input technology: as many
\* rows as technologies and, for every name, as many rows of that name as
\* technologies of that name; duplicate names give duplicate rows.
C10_OneRowPerTechnology ==
    outcome.kind = "returned" =>
        /\ Len(Results) = Len(technologies)
        /\ \A j \in DOMAIN technologies :
              NameCount(Results, technologies[j]["name"]) =
                 NameCount(technologies, technologies[j]["name"])
        /\ \A j \in DOMAIN Results :
              \E h \in DOMAIN technologies : technologies[h]["name"] = Results[j].name

\* C10 witness: two technologies of the same name with different KPIs were
\* ranked and both rows are in the ranking.
C10_Witness ==
    /\ outcome.kind = "returned"
    /\ Len(technologies) = 2
    /\ technologies[1]["name"] = technologies[2]["name"]
    /\ technologies[1] # technologies[2]
    /\ Len(Results) = 2
    /\ Results[1].name = Results[2].name

----------------------------------------------------------------------------
(* The end-to-end scenario: bounds [0, 100] and technologies whose KPIs all
   carry one value *)

MkUniform(name, v) == [k \in Range(required_keys) |-> IF k = "name" THEN name ELSE v]

HundredBounds == [k \in KpiSet |-> <<0, 100>>]

TechA == MkUniform("Tech A", 100)

TechB == MkUniform("Tech B", 0)

ScenarioTechs == {TechA, TechB, MkUniform("Tech C", 50)}

InitScenario ==
    /\ via \in {"engine", "route"}
    /\ profile \in Profiles
    /\ technologies \in UNION {[1..n -> ScenarioTechs] : n \in 0..MaxTechs}
    /\ mins_maxes = HundredBounds
    /\ pc = IF via = "engine" THEN "call" ELSE "request"
    /\ i = 0
    /\ cur_w = EmptyDict
    /\ cur_n = EmptyDict
    /\ weighted_by_tech = <<>>
    /\ outcome = NoOutcome
    /\ response = NoResponse
    /\ credentials = "none"
    /\ calls = <<>>
    /\ fn_in = <<>>
    /\ fn_out = <<>>

SpecScenario == InitScenario /\ [][Next]_vars

\* Tech A (every KPI 100) and Tech B (every KPI 0), in either order, bounds
\* [0, 100], profile Environment-Oriented, and the engine has returned
ScenarioRanked ==
    /\ profile = "Environment-Oriented"
    /\ mins_maxes = HundredBounds
    /\ Len(technologies) = 2
    /\ Range(technologies) = {TechA, TechB}
    /\ outcome.kind = "returned"

\* C11 (as claimed): in the scenario Tech A is ranked first with closeness near
\* 1.0 (at least 0.9) and Tech B last with closeness near 0.0 (at most 0.1).
C11_ScenarioNearOneAndZero ==
    ScenarioRanked =>
        /\ Results[1].name = "Tech A"
        /\ Results[1].closeness * 10 >= 9 * CloseUnit
        /\ Results[2].name = "Tech B"
        /\ Results[2].closeness * 10 <= CloseUnit

\* C11 (amended): in the scenario Tech A is ranked first with closeness about
\* 0.606 and Tech B last with closeness about 0.394: A is best on the eight
\* higher-is-better KPIs and worst on the nine lower-is-better KPIs, so its
\* squared distances are 696 * 100^2 to the ideal best and 1644 * 100^2 to the
\* ideal worst (in units of 1/180), and B's are the reverse.
C11_ScenarioRanking ==
    ScenarioRanked =>
        /\ Results[1].name = "Tech A"
        /\ Results[1].S_plus_sq = 6960000
        /\ Results[1].S_minus_sq = 16440000
        /\ 1000 * Results[1].closeness >= 600 * CloseUnit
        /\ 1000 * Results[1].closeness <= 610 * CloseUnit
        /\ Results[2].name = "Tech B"
        /\ Results[2].S_plus_sq = 16440000
        /\ Results[2].S_minus_sq = 6960000
        /\ 1000 * Results[2].closeness >= 390 * CloseUnit
        /\ 1000 * Results[2].closeness <= 400 * CloseUnit

\* C11 witness: the scenario ranked with Tech B first in the input.
C11_Witness ==
    /\ ScenarioRanked
    /\ technologies[1] = TechB
    /\ Results[1].name = "Tech A"

----------------------------------------------------------------------------
(* The engine as one function of its arguments: what a call computes when
   nothing else runs *)

\* lines 171-247 for one technology: the first error in evaluation order, or
\* the weighted KPIs
TechOutcome(tech, bounds, prof) ==
    LET k == FirstKey(required_keys, Range(required_keys) \ DOMAIN tech)
        bad == FirstKey(KpiKeys, {x \in KpiSet : MmFault(bounds, x) # ""})
    IN IF k # "" THEN MissingKey(tech, k)
       ELSE IF bad # "" THEN mm(bounds, bad)
       ELSE Returned(
              [x \in KpiSet |->
                  pillar_weight(PillarScore(PillarOf(x), prof), Len(PillarKeys(PillarOf(x))))
                  * Normalize(x, tech[x], bounds[x][1], bounds[x][2])])

\* the weighted rows of a batch in which no technology raises
WeightedRows(techs, bounds, prof) ==
    [j \in DOMAIN techs |->
        [name |-> techs[j]["name"],
         weighted_kpis |-> TechOutcome(techs[j], bounds, prof).results]]

\* lines 5-278
EngineResult(techs, bounds, prof) ==
    IF prof \notin valid_profiles
    THEN Raised("ValueError", "invalid_profile", "", "")
    ELSE LET failing == {j \in DOMAIN techs :
                            TechOutcome(techs[j], bounds, prof).kind = "raised"}
         IN IF failing # {}
            THEN TechOutcome(techs[MinOf(failing)], bounds, prof)
            ELSE Returned(Rank(WeightedRows(techs, bounds, prof)))

\* the step-by-step call ends in what the function gives
EngineAgreesWithFunction ==
    outcome.kind # "none" => outcome = EngineResult(technologies, mins_maxes, profile)

\* the request variables of a specification that runs no ranking request
NoRequest ==
    /\ via = "none"
    /\ profile = ""
    /\ technologies = <<>>
    /\ mins_maxes = EmptyDict
    /\ i = 0
    /\ cur_w = EmptyDict
    /\ cur_n = EmptyDict
    /\ weighted_by_tech = <<>>
    /\ outcome = NoOutcome
    /\ response = NoResponse
    /\ credentials = "none"
    /\ calls = <<>>

request == <<via, profile, technologies, mins_maxes, i, cur_w, cur_n,
             weighted_by_tech, outcome, response, credentials, calls>>

----------------------------------------------------------------------------
(* Rank stability: a batch and the same batch with one KPI replaced by
   a * v + b in every technology, both ranked by the engine *)

AffineTechs == {MkTech("A", x, y) : x \in 0..2, y \in 1..2}

AffineKpis == {"envelope_kpi", "irr_kpi"}

AffineBounds == {DefaultBounds, [DefaultBounds EXCEPT !["irr_kpi"] = <<1, 3>>]}

Transform(techs, kpi, a, b) ==
    [j \in DOMAIN techs |-> [techs[j] EXCEPT ![kpi] = a * @ + b]]

\* every value of the KPI lies within its [min, max]
Within(techs, kpi, bounds) ==
    \A j \in DOMAIN techs :
        bounds[kpi][1] <= techs[j][kpi] /\ techs[j][kpi] <= bounds[kpi][2]

AffineInputs ==
    {x \in [techs : UNION {[1..n -> AffineTechs] : n \in 2..MaxTechs},
            bounds : AffineBounds,
            prof : valid_profiles,
            kpi : AffineKpis,
            a : 1..2,
            b : 0..2] :
        /\ Within(x.techs, x.kpi, x.bounds)
        /\ Within(Transform(x.techs, x.kpi, x.a, x.b), x.kpi, x.bounds)}

InitAffine ==
    /\ NoRequest
    /\ pc = "apply"
    /\ fn_in \in AffineInputs
    /\ fn_out = <<>>

\* both batches go through lines 171-275; the rows are kept in input order
ApplyAffine ==
    /\ pc = "apply"
    /\ fn_out' =
          [before |-> ScoreRows(WeightedRows(fn_in.techs, fn_in.bounds, fn_in.prof)),
           after |-> ScoreRows(WeightedRows(
                        Transform(fn_in.techs, fn_in.kpi, fn_in.a, fn_in.b),
                        fn_in.bounds, fn_in.prof))]
    /\ pc' = "applied"
    /\ UNCHANGED <<request, fn_in>>

SpecAffine == InitAffine /\ [][ApplyAffine]_vars

\* C12 (as claimed): a positive affine transform of one KPI that keeps the
\* values within [min, max] never reverses the closeness order of two
\* technologies.
C12_AffineKeepsOrder ==
    pc = "applied" =>
        \A j, h \in DOMAIN fn_out.before :
            fn_out.before[j].closeness > fn_out.before[h].closeness
               => fn_out.after[j].closeness >= fn_out.after[h].closeness

\* C12 (amended): a translation v + b of one KPI (a = 1) that keeps the values
\* within [min, max] leaves S_plus, S_minus and closeness of every technology
\* unchanged, hence the order of the closeness scores.
C12_TranslationKeepsScores ==
    (pc = "applied" /\ fn_in.a = 1) =>
        \A j \in DOMAIN fn_out.before : fn_out.after[j] = fn_out.before[j]

\* C12 witness: a batch translated by b > 0 whose technologies differ in the
\* translated KPI and in closeness.
C12_Witness ==
    /\ pc = "applied"
    /\ fn_in.a = 1
    /\ fn_in.b > 0
    /\ fn_in.techs[1][fn_in.kpi] # fn_in.techs[2][fn_in.kpi]
    /\ fn_out.before[1].closeness > fn_out.before[2].closeness
    /\ fn_out.before[2].closeness > 0

----------------------------------------------------------------------------
(* The two normalisations as functions of (v, mn, mx), mx > mn *)

MaxBound == 5

NormalizeInputs ==
    {x \in [v : (0 - 2)..(MaxBound + 2), mn : 0..MaxBound, mx : 0..MaxBound] :
        x.mx > x.mn}

InitNormalize ==
    /\ NoRequest
    /\ pc = "apply"
    /\ fn_in \in NormalizeInputs
    /\ fn_out = <<>>

ApplyNormalize ==
    /\ pc = "apply"
    /\ fn_out' = [high |-> normalize_high(fn_in.v, fn_in.mn, fn_in.mx),
                  low |-> normalize_low(fn_in.v, fn_in.mn, fn_in.mx)]
    /\ pc' = "applied"
    /\ UNCHANGED <<request, fn_in>>

SpecNormalize == InitNormalize /\ [][ApplyNormalize]_vars

\* C13: for max > min, normalize_high is (value - min) / (max - min) * 100
\* clamped to [0, 100]: 0 for value <= min, 100 for value >= max, the quotient
\* (to the resolution of the scores) in between, and always a score, never an
\* error.
C13_HighNormalization ==
    pc = "applied" =>
        LET w == fn_in.mx - fn_in.mn
            num == (fn_in.v - fn_in.mn) * 100
        IN /\ fn_out.high \in 0..100
           /\ fn_in.v <= fn_in.mn => fn_out.high = 0
           /\ fn_in.v >= fn_in.mx => fn_out.high = 100
           /\ (fn_in.mn < fn_in.v /\ fn_in.v < fn_in.mx) =>
                 /\ fn_out.high * w <= num
                 /\ num < (fn_out.high + 1) * w

\* C13 witness: a value below the minimum normalised to 0 (one above the
\* maximum is normalised to 100 by the same clamp).
C13_Witness ==
    /\ pc = "applied"
    /\ fn_in.v < fn_in.mn
    /\ fn_out.high = 0

\* C14 (as claimed): for v strictly between min and max, normalize_low equals
\* 100 minus normalize_high.
C14_ExactSymmetry ==
    (pc = "applied" /\ fn_in.mn < fn_in.v /\ fn_in.v < fn_in.mx) =>
        fn_out.low = 100 - fn_out.high

\* C14 (amended): for v strictly between min and max, normalize_low and
\* 100 minus normalize_high agree up to the rounding of the two quotients:
\* they differ by at most one unit of the score resolution.
C14_SymmetryUpToRounding ==
    (pc = "applied" /\ fn_in.mn < fn_in.v /\ fn_in.v < fn_in.mx) =>
        /\ fn_out.low <= 100 - fn_out.high
        /\ 100 - fn_out.high <= fn_out.low + 1

\* C14 witness: a value strictly inside bounds whose width does not divide the
\* numerators, so both quotients are rounded.
C14_Witness ==
    /\ pc = "applied"
    /\ fn_in.mn < fn_in.v
    /\ fn_in.v < fn_in.mx
    /\ ((fn_in.v - fn_in.mn) * 100) % (fn_in.mx - fn_in.mn) # 0
    /\ fn_out.low > 0
    /\ fn_out.high > 0

----------------------------------------------------------------------------
(* Pillar weights *)

\* C15: for each pillar and profile the per-KPI weight the engine applies is
\* (score / 15) / kpi_count, with the scores EE 3/2/2, FV 5/3/1, REI 2/5/3,
\* SEI 1/4/5, UC 4/1/4 (Environment / Comfort / Financial) and the KPI counts
\* 4, 6, 3, 2, 2: both the weight a calculator returns and the factor found in
\* every weighted KPI of every appended row.
C15_PillarWeights ==
    LET col == CASE profile = "Environment-Oriented" -> 1
                 [] profile = "Comfort-Oriented" -> 2
                 [] profile = "Financially-Oriented" -> 3
                 [] OTHER -> 0
        table == [EE |-> <<3, 2, 2>>, FV |-> <<5, 3, 1>>, REI |-> <<2, 5, 3>>,
                  SEI |-> <<1, 4, 5>>, UC |-> <<4, 1, 4>>]
        kpi_count == [EE |-> 4, FV |-> 6, REI |-> 3, SEI |-> 2, UC |-> 2]
    IN /\ \A p \in DOMAIN cur_w :
              /\ col # 0
              /\ cur_w[p] * 15 * kpi_count[p] = table[p][col] * WeightUnit
       /\ \A j \in DOMAIN weighted_by_tech : \A k \in KpiSet :
              LET p == PillarOf(k)
              IN weighted_by_tech[j].weighted_kpis[k] * 15 * kpi_count[p] =
                    table[p][col] * WeightUnit
                       * Normalize(k, technologies[j][k], mins_maxes[k][1],
                                   mins_maxes[k][2])

\* C15 witness: all five calculators have returned their weight for a second
\* technology under the Comfort profile, a first row being already appended.
C15_Witness ==
    /\ pc = "append"
    /\ profile = "Comfort-Oriented"
    /\ DOMAIN cur_w = Range(Pillars)
    /\ Len(weighted_by_tech) = 1
    /\ \E k \in KpiSet : weighted_by_tech[1].weighted_kpis[k] > 0

----------------------------------------------------------------------------
(* The route as one function of the payload *)

RouteResult(techs, bounds, prof) ==
    IF RequestValid(techs)
    THEN Answer(EngineResult(techs, bounds, prof), prof)
    ELSE RequestRejected(techs)

RouteAgreesWithFunction ==
    (via = "route" /\ pc = "done") =>
        response = RouteResult(technologies, mins_maxes, profile)

----------------------------------------------------------------------------
(* Concurrent invocations.  Everything an invocation works on is a local of
   topsis_rank_technologies or of run_topsis, so an invocation is a frame of
   those locals.  One invocation runs on the variables of the module; the
   others wait in calls, and the scheduler may switch between any two steps. *)

MaxCalls == 2

ConcurrentRequests ==
    {[profile |-> "Environment-Oriented",
      technologies |-> <<MkTech("A", 1, 1)>>,
      mins_maxes |-> DefaultBounds],
     [profile |-> "Comfort-Oriented",
      technologies |-> <<MkTech("B", 3, 3), MkTech("A", 0, 2)>>,
      mins_maxes |-> [DefaultBounds EXCEPT !["irr_kpi"] = <<1, 3>>]],
     [profile |-> "Bogus",
      technologies |-> <<MkTech("A", 1, 1)>>,
      mins_maxes |-> DefaultBounds],
     [profile |-> "Financially-Oriented",
      technologies |-> <<Without(MkTech("A", 1, 1), {"gwp_kpi"})>>,
      mins_maxes |-> DefaultBounds]}

\* the locals of the running invocation
CurrentFrame ==
    [profile |-> profile, technologies |-> technologies, mins_maxes |-> mins_maxes,
     pc |-> pc, i |-> i, cur_w |-> cur_w, cur_n |-> cur_n,
     weighted_by_tech |-> weighted_by_tech, outcome |-> outcome,
     response |-> response]

\* the frame of an invocation that has not started
NewFrame(req) ==
    [profile |-> req.profile, technologies |-> req.technologies,
     mins_maxes |-> req.mins_maxes,
     pc |-> IF via = "engine" THEN "call" ELSE "request",
     i |-> 0, cur_w |-> EmptyDict, cur_n |-> EmptyDict,
     weighted_by_tech |-> <<>>, outcome |-> NoOutcome, response |-> NoResponse]

\* the place in calls of the invocation that is running
RunningSlot ==
    [profile |-> "", technologies |-> <<>>, mins_maxes |-> EmptyDict,
     pc |-> "running", i |-> 0, cur_w |-> EmptyDict, cur_n |-> EmptyDict,
     weighted_by_tech |-> <<>>, outcome |-> NoOutcome, response |-> NoResponse]

Running == CHOOSE r \in DOMAIN calls : calls[r].pc = "running"

FrameOf(r) == IF calls[r].pc = "running" THEN CurrentFrame ELSE calls[r]

InitConcurrent ==
    /\ via \in {"engine", "route"}
    /\ fn_in \in [1..MaxCalls -> ConcurrentRequests]
    /\ calls = [r \in 1..MaxCalls |->
                   IF r = 1 THEN RunningSlot ELSE NewFrame(fn_in[r])]
    /\ profile = fn_in[1].profile
    /\ technologies = fn_in[1].technologies
    /\ mins_maxes = fn_in[1].mins_maxes
    /\ pc = IF via = "engine" THEN "call" ELSE "request"
    /\ i = 0
    /\ cur_w = EmptyDict
    /\ cur_n = EmptyDict
    /\ weighted_by_tech = <<>>
    /\ outcome = NoOutcome
    /\ response = NoResponse
    /\ credentials = "none"
    /\ fn_out = <<>>

\* Switch with the list of line 169 held in one place for all invocations:
\* it is neither saved nor restored
SwitchSharingList(r) ==
    /\ calls # <<>>
    /\ r \in DOMAIN calls
    /\ calls[r].pc \notin {"running", "done"}
    /\ calls' = [calls EXCEPT ![Running] = CurrentFrame, ![r] = RunningSlot]
    /\ profile' = calls[r].profile
    /\ technologies' = calls[r].technologies
    /\ mins_maxes' = calls[r].mins_maxes
    /\ pc' = calls[r].pc
    /\ i' = calls[r].i
    /\ cur_w' = calls[r].cur_w
    /\ cur_n' = calls[r].cur_n
    /\ outcome' = calls[r].outcome
    /\ response' = calls[r].response
    /\ UNCHANGED <<via, credentials, fn_in, fn_out, weighted_by_tech>>

\* the scheduler suspends the running invocation and resumes invocation r
Switch(r) ==
    /\ calls # <<>>
    /\ r \in DOMAIN calls
    /\ calls[r].pc \notin {"running", "done"}
    /\ calls' = [calls EXCEPT ![Running] = CurrentFrame, ![r] = RunningSlot]
    /\ profile' = calls[r].profile
    /\ technologies' = calls[r].technologies
    /\ mins_maxes' = calls[r].mins_maxes
    /\ pc' = calls[r].pc
    /\ i' = calls[r].i
    /\ cur_w' = calls[r].cur_w
    /\ cur_n' = calls[r].cur_n
    /\ weighted_by_tech' = calls[r].weighted_by_tech
    /\ outcome' = calls[r].outcome
    /\ response' = calls[r].response
    /\ UNCHANGED <<via, credentials, fn_in, fn_out>>

NextConcurrent ==
    \/ Next
    \/ \E r \in 1..MaxCalls : Switch(r)

SpecConcurrent == InitConcurrent /\ [][NextConcurrent]_vars

\* C16: in every interleaving of the invocations, no invocation changes the
\* profile, technologies or bounds it was given, and each invocation that has
\* finished holds the result, error or response it produces when run alone.
C16_NoInterference ==
    \A r \in DOMAIN calls :
        /\ FrameOf(r).profile = fn_in[r].profile
        /\ FrameOf(r).technologies = fn_in[r].technologies
        /\ FrameOf(r).mins_maxes = fn_in[r].mins_maxes
        /\ FrameOf(r).pc = "done" =>
              IF via = "engine"
              THEN FrameOf(r).outcome =
                      EngineResult(fn_in[r].technologies, fn_in[r].mins_maxes,
                                   fn_in[r].profile)
              ELSE FrameOf(r).response =
                      RouteResult(fn_in[r].technologies, fn_in[r].mins_maxes,
                                  fn_in[r].profile)

\* C16 witness: two rankings of different batches have both finished with a
\* result, the second one having run while the first was suspended.
C16_Witness ==
    /\ calls # <<>>
    /\ \A r \in DOMAIN calls : FrameOf(r).pc = "done"
    /\ FrameOf(1).outcome.kind = "returned"
    /\ FrameOf(2).outcome.kind = "returned"
    /\ Len(FrameOf(1).outcome.results) = 2
    /\ Len(FrameOf(2).outcome.results) = 1
    /\ calls[1].pc = "running"

----------------------------------------------------------------------------
(* The caller identity: OptionalAuthenticatedUserDep is resolved before
   run_topsis is entered *)

CredentialKinds == {"none", "accepted", "rejected"}

\* the HTTPException of _get_authenticated_user when Supabase and Keycloak both
\* refuse the token
Unauthorized ==
    [NoResponse EXCEPT !.status = 401, !.detail = "authentication_failed"]

InitIdentity ==
    /\ via = "route"
    /\ credentials \in CredentialKinds
    /\ profile \in Profiles
    /\ technologies \in TechLists
    /\ mins_maxes \in BoundsPool
    /\ pc = "depends"
    /\ i = 0
    /\ cur_w = EmptyDict
    /\ cur_n = EmptyDict
    /\ weighted_by_tech = <<>>
    /\ outcome = NoOutcome
    /\ response = NoResponse
    /\ calls = <<>>
    /\ fn_in = <<>>
    /\ fn_out = <<>>

\* get_optional_authenticated_user for a route that requires an identity: a
\* request without credentials is refused
ResolveUserRequired ==
    /\ pc = "depends"
    /\ IF credentials = "accepted"
       THEN /\ fn_out' = [current_user |-> "user"]
            /\ pc' = "request"
            /\ response' = response
       ELSE /\ fn_out' = fn_out
            /\ pc' = "done"
            /\ response' = Unauthorized
    /\ UNCHANGED <<via, profile, technologies, mins_maxes, i, cur_w, cur_n,
                   weighted_by_tech, outcome, credentials, calls, fn_in>>

\* get_optional_authenticated_user, lines 182-201: None without credentials,
\* the user of an accepted token, 401 for a refused one; current_user is kept
\* in fn_out for the log line of run_topsis
ResolveUser ==
    /\ pc = "depends"
    /\ IF credentials = "none"
       THEN /\ fn_out' = [current_user |-> "None"]
            /\ pc' = "request"
            /\ response' = response
       ELSE IF credentials = "accepted"
       THEN /\ fn_out' = [current_user |-> "user"]
            /\ pc' = "request"
            /\ response' = response
       ELSE /\ fn_out' = fn_out
            /\ pc' = "done"
            /\ response' = Unauthorized
    /\ UNCHANGED <<via, profile, technologies, mins_maxes, i, cur_w, cur_n,
                   weighted_by_tech, outcome, credentials, calls, fn_in>>

NextIdentity ==
    \/ ResolveUser
    \/ Next

SpecIdentity == InitIdentity /\ [][NextIdentity]_vars

\* C17 (as claimed): the answer to a rank request is the same function of
\* profile, technologies and bounds whether no credentials or any credentials
\* are supplied.
C17_SameWithAnyCredentials ==
    pc = "done" => response = RouteResult(technologies, mins_maxes, profile)

\* C17 (amended): the answer to a rank request is the same function of profile,
\* technologies and bounds when no credentials are supplied as when credentials
\* that authenticate are supplied; credentials that are refused are answered
\* 401 before the ranking runs.
C17_SameWithOrWithoutIdentity ==
    pc = "done" =>
        IF credentials \in {"none", "accepted"}
        THEN response = RouteResult(technologies, mins_maxes, profile)
        ELSE response = Unauthorized /\ outcome = NoOutcome

\* C17 witness: a request with accepted credentials answered with a ranking of
\* two technologies.
C17_Witness ==
    /\ pc = "done"
    /\ credentials = "accepted"
    /\ fn_out = [current_user |-> "user"]
    /\ response.status = 200
    /\ response.count = 2

----------------------------------------------------------------------------
(* Error answers of POST /mcda/topsis *)

InvalidProfile == profile \notin valid_profiles

MissingBounds == \E k \in KpiSet : k \notin DOMAIN mins_maxes

InvalidBounds ==
    \E k \in KpiSet \cap DOMAIN mins_maxes : mins_maxes[k][2] <= mins_maxes[k][1]

MissingKpi == \E j \in DOMAIN technologies : LacksKpi(technologies[j])

ValidationFailure == InvalidProfile \/ MissingBounds \/ InvalidBounds \/ MissingKpi

\* C18: a rank request with an invalid profile, a missing bounds entry, invalid
\* bounds or a technology lacking a KPI is answered 422, never 500 and never
\* 200, and the detail names a field that is at fault: the profile, the bounds
\* key, or the technology and field that is missing.
C18_ValidationFailureIs422 ==
    (via = "route" /\ pc = "done") =>
        /\ ValidationFailure => response.status = 422
        /\ response.status \in {200, 500} => ~ValidationFailure
        /\ response.status = 422 =>
              CASE response.detail = "invalid_profile" -> InvalidProfile
                [] response.detail = "missing_bounds" ->
                      response.key \in KpiSet \ DOMAIN mins_maxes
                [] response.detail = "invalid_bounds" ->
                      /\ response.key \in KpiSet \cap DOMAIN mins_maxes
                      /\ mins_maxes[response.key][2] <= mins_maxes[response.key][1]
                [] response.detail = "request_validation" ->
                      /\ response.loc # {}
                      /\ \A l \in response.loc :
                            \/ l[1] = 0 /\ technologies = <<>>
                            \/ /\ l[1] \in DOMAIN technologies
                               /\ l[2] \notin DOMAIN technologies[l[1]]
                [] OTHER -> FALSE

\* C18 witness: a request whose bounds lack an entry, answered 422 naming the
\* key, from the KeyError the engine raised.
C18_Witness ==
    /\ via = "route"
    /\ pc = "done"
    /\ outcome.exc = "KeyError"
    /\ response.status = 422
    /\ response.detail = "missing_bounds"
    /\ response.key = "npv_kpi"

----------------------------------------------------------------------------
(* The answer to a successful rank request *)

\* C19: a successful rank request returns, in the engine's order (closeness
\* descending), one {name, closeness, S_plus, S_minus} per result row, echoes
\* the profile of the request, and carries a count equal to the number of
\* technologies submitted and to the length of the ranking.
C19_SuccessfulResponse ==
    (via = "route" /\ pc = "done" /\ response.status = 200) =>
        /\ outcome.kind = "returned"
        /\ response.profile = profile
        /\ response.count = Len(technologies)
        /\ response.count = Len(response.ranking)
        /\ Len(response.ranking) = Len(Results)
        /\ \A j \in DOMAIN response.ranking :
              /\ DOMAIN response.ranking[j] = {"name", "closeness", "S_plus", "S_minus"}
              /\ response.ranking[j].name = Results[j].name
              /\ response.ranking[j].closeness = Results[j].closeness
              /\ response.ranking[j].S_plus = Results[j].S_plus
              /\ response.ranking[j].S_minus = Results[j].S_minus
        /\ SortedDescending(response.ranking)

\* C19 witness: a ranking of two technologies with different closeness, the
\* first being nearer to the ideal best than to the ideal worst.
C19_Witness ==
    /\ via = "route"
    /\ pc = "done"
    /\ response.status = 200
    /\ response.count = 2
    /\ response.ranking[1].closeness > response.ranking[2].closeness
    /\ response.ranking[1].S_plus < response.ranking[1].S_minus

----------------------------------------------------------------------------
(* The application: the routers app.py includes, and the dispatch of a request
   to the endpoint they register *)

\* the routes each router module declares: method, path, endpoint
RouterRoutes ==
    [health |-> {<<"GET", "/health", "health_check">>},
     auth |-> {<<"GET", "/whoami", "whoami_with_roles">>},
     examples |-> {<<"POST", "/storage", "upload_file">>,
                   <<"GET", "/storage", "list_files">>,
                   <<"GET", "/table/{table_name}", "read_table">>,
                   <<"GET", "/user-profile", "get_user_profile">>},
     ee |-> {<<"POST", "/technical/ee", "ee_endpoint">>},
     rei |-> {<<"POST", "/financial/rei", "rei_endpoint">>},
     sei |-> {<<"POST", "/technical/sei", "sei_endpoint">>},
     uc |-> {<<"POST", "/technical/uc", "uc_endpoint">>},
     fv |-> {<<"POST", "/technical/fv", "fv_endpoint">>},
     mcda |-> {<<"POST", "/mcda/topsis", "run_topsis">>}]

\* app.py lines 27-36, in order
IncludedRouters == <<"health", "auth", "examples", "ee", "rei", "sei", "uc", "fv">>

\* the routes FastAPI adds by itself
BuiltinRoutes ==
    {<<"GET", "/openapi.json", "openapi">>, <<"GET", "/docs", "swagger_ui_html">>}

AppRoutes == BuiltinRoutes \cup UNION {RouterRoutes[r] : r \in Range(IncludedRouters)}

\* the paths of the OpenAPI schema
AppPaths == {rt[2] : rt \in AppRoutes \ BuiltinRoutes}

Matches(template, path) ==
    \/ template = path
    \/ template = "/table/{table_name}" /\ path = "/table/users"

RequestPaths ==
    {"/health", "/whoami", "/storage", "/table/users", "/user-profile",
     "/technical/ee", "/financial/rei", "/technical/sei", "/technical/uc",
     "/technical/fv", "/mcda/topsis", "/mcda", "/openapi.json", "/docs"}

InitApp ==
    /\ via = "app"
    /\ fn_in \in [method : {"GET", "POST"}, path : RequestPaths]
    /\ profile \in Profiles
    /\ technologies \in {<<>>, <<MkTech("A", 1, 1)>>,
                         <<MkTech("A", 1, 1), MkTech("B", 3, 3)>>}
    /\ mins_maxes = DefaultBounds
    /\ pc = "dispatch"
    /\ i = 0
    /\ cur_w = EmptyDict
    /\ cur_n = EmptyDict
    /\ weighted_by_tech = <<>>
    /\ outcome = NoOutcome
    /\ response = NoResponse
    /\ credentials = "none"
    /\ calls = <<>>
    /\ fn_out = <<>>

\* the router of the application: the endpoint of the matching route, 405 when
\* only the path matches, 404 when nothing does
Dispatch ==
    /\ pc = "dispatch"
    /\ LET full == {rt \in AppRoutes :
                       rt[1] = fn_in.method /\ Matches(rt[2], fn_in.path)}
           partial == {rt \in AppRoutes : Matches(rt[2], fn_in.path)}
       IN IF full # {}
          THEN /\ fn_out' = [endpoint |-> (CHOOSE rt \in full : TRUE)[3]]
               /\ pc' = "endpoint"
               /\ response' = response
          ELSE /\ fn_out' = fn_out
               /\ pc' = "done"
               /\ response' = [NoResponse EXCEPT
                                  !.status = IF partial # {} THEN 405 ELSE 404,
                                  !.detail = IF partial # {} THEN "Method Not Allowed"
                                             ELSE "Not Found"]
    /\ UNCHANGED <<via, profile, technologies, mins_maxes, i, cur_w, cur_n,
                   weighted_by_tech, outcome, credentials, calls, fn_in>>

SpecApp == InitApp /\ [][Dispatch]_vars

\* C20: the application serves a path under /mcda, and a POST /mcda/topsis
\* sent to it reaches run_topsis instead of being answered as not found.
C20_McdaRouterRegistered ==
    (pc # "dispatch" /\ fn_in.method = "POST" /\ fn_in.path = "/mcda/topsis") =>
        /\ \E path \in AppPaths : Matches(path, "/mcda/topsis")
        /\ pc = "endpoint"
        /\ fn_out = [endpoint |-> "run_topsis"]
        /\ response.status # 404

----------------------------------------------------------------------------
(* Authentication: _get_authenticated_user (Supabase first, Keycloak as the
   fallback), validate_keycloak_jwt, role fetching and get_user_client.
   fn_in holds what the providers make of the token, calls the operations on
   the providers in the order they are made, outcome the errors caught so
   far, fn_out the authenticated user, response the error or client that
   ends the call. *)

AuthEntries == {"without_roles", "with_roles", "user_client"}

\* what the token is to the two providers and to the roles API
TokenFacts ==
    [entry : AuthEntries,
     supabase : {"accept", "reject"},
     sb_identity : {"email", "keycloak", "keycloak_no_metadata"},
     decodable : BOOLEAN,
     iss : {"missing", "trusted", "other"},
     signature : {"good", "bad", "no_key"},
     client : {"aud", "azp", "aud_list", "other"},
     sub : BOOLEAN,
     roles_api : {"ok", "down"}]

NoUser == [authentication_method |-> "none", identities |-> {}, metadata |-> FALSE,
           roles_set |-> FALSE, keycloak_roles |-> <<>>]

\* lines 30-38 with UniversalUser.from_supabase_user
SupabaseUser(identity) ==
    [authentication_method |-> "supabase",
     identities |-> IF identity = "email" THEN {"email"} ELSE {"keycloak"},
     metadata |-> identity = "keycloak",
     roles_set |-> FALSE, keycloak_roles |-> <<>>]

\* keycloak.py lines 149-155 with UniversalUser.from_keycloak_jwt
KeycloakUser ==
    [authentication_method |-> "keycloak", identities |-> {"keycloak"},
     metadata |-> TRUE, roles_set |-> FALSE, keycloak_roles |-> <<>>]

NoAuthErrors == [supabase_error |-> "", keycloak_error |-> "", keycloak_status |-> 0]

NoAuthResponse == [status |-> 0, detail |-> <<>>, client |-> ""]

InitAuth ==
    /\ via = "auth"
    /\ fn_in \in TokenFacts
    /\ credentials = "supplied"
    /\ pc = "supabase"
    /\ calls = <<>>
    /\ outcome = NoAuthErrors
    /\ fn_out = NoUser
    /\ response = NoAuthResponse
    /\ profile = ""
    /\ technologies = <<>>
    /\ mins_maxes = EmptyDict
    /\ i = 0
    /\ cur_w = EmptyDict
    /\ cur_n = EmptyDict
    /\ weighted_by_tech = <<>>

\* everything the authentication never touches
auth_aside == <<via, profile, technologies, mins_maxes, i, cur_w, cur_n,
                weighted_by_tech, credentials, fn_in>>

\* TrySupabase that goes on to Keycloak whatever Supabase answered
TrySupabaseThenKeycloak ==
    /\ pc = "supabase"
    /\ calls' = Append(calls, "supabase.get_user")
    /\ IF fn_in.supabase = "accept"
       THEN /\ fn_out' = SupabaseUser(fn_in.sb_identity)
            /\ outcome' = outcome
       ELSE /\ fn_out' = fn_out
            /\ outcome' = [outcome EXCEPT !.supabase_error = "supabase_rejected"]
    /\ pc' = "keycloak_decode"
    /\ UNCHANGED <<auth_aside, response>>

\* dependencies.py lines 108-117: the primary strategy
TrySupabase ==
    /\ pc = "supabase"
    /\ calls' = Append(calls, "supabase.get_user")
    /\ IF fn_in.supabase = "accept"
       THEN /\ fn_out' = SupabaseUser(fn_in.sb_identity)
            /\ outcome' = outcome
            /\ pc' = "roles"
       ELSE /\ fn_out' = fn_out
            /\ outcome' = [outcome EXCEPT !.supabase_error = "supabase_rejected"]
            /\ pc' = "keycloak_decode"
    /\ UNCHANGED <<auth_aside, response>>

\* validate_keycloak_jwt raising: both except clauses (lines 157-170) turn the
\* error into HTTPException 401
KeycloakFails(reason) ==
    /\ outcome' = [outcome EXCEPT !.keycloak_error = reason, !.keycloak_status = 401]
    /\ pc' = "both_failed"
    /\ fn_out' = fn_out

\* KeycloakDecode without the issuer check of lines 101-112
KeycloakDecodeAnyIssuer ==
    /\ pc = "keycloak_decode"
    /\ calls' = Append(calls, "keycloak.decode_unverified")
    /\ IF ~fn_in.decodable THEN KeycloakFails("invalid_token")
       ELSE /\ pc' = "keycloak_verify"
            /\ UNCHANGED <<outcome, fn_out>>
    /\ UNCHANGED <<auth_aside, response>>

\* keycloak.py lines 93-112: unverified decode, then the issuer check
KeycloakDecode ==
    /\ pc = "keycloak_decode"
    /\ calls' = Append(calls, "keycloak.decode_unverified")
    /\ IF ~fn_in.decodable THEN KeycloakFails("invalid_token")
       ELSE IF fn_in.iss = "missing" THEN KeycloakFails("missing_issuer")
       ELSE IF fn_in.iss # "trusted" THEN KeycloakFails("untrusted_issuer")
       ELSE /\ pc' = "keycloak_verify"
            /\ UNCHANGED <<outcome, fn_out>>
    /\ UNCHANGED <<auth_aside, response>>

\* keycloak.py lines 115-123: the signing key from the JWKS endpoint, then the
\* verified decode
KeycloakVerify ==
    /\ pc = "keycloak_verify"
    /\ IF fn_in.signature = "no_key"
       THEN /\ calls' = Append(calls, "keycloak.jwks_fetch")
            /\ KeycloakFails("no_signing_key")
       ELSE /\ calls' = calls \o <<"keycloak.jwks_fetch", "keycloak.verify_signature">>
            /\ IF fn_in.signature = "bad" THEN KeycloakFails("bad_signature")
               ELSE /\ pc' = "keycloak_claims"
                    /\ UNCHANGED <<outcome, fn_out>>
    /\ UNCHANGED <<auth_aside, response>>

\* keycloak.py lines 127-155: client in aud / azp, subject, the user
KeycloakClaims ==
    /\ pc = "keycloak_claims"
    /\ IF fn_in.client = "other" THEN KeycloakFails("wrong_client")
       ELSE IF ~fn_in.sub THEN KeycloakFails("missing_subject")
       ELSE /\ fn_out' = KeycloakUser
            /\ pc' = "roles"
            /\ outcome' = outcome
    /\ UNCHANGED <<auth_aside, response, calls>>

\* BothFailed reporting the Keycloak error alone
BothFailedKeycloakOnly ==
    /\ pc = "both_failed"
    /\ response' = [NoAuthResponse EXCEPT
                       !.status = 401,
                       !.detail = <<"keycloak_failed", outcome.keycloak_error>>]
    /\ pc' = "done"
    /\ UNCHANGED <<auth_aside, calls, outcome, fn_out>>

\* dependencies.py lines 127-136
BothFailed ==
    /\ pc = "both_failed"
    /\ response' = [NoAuthResponse EXCEPT
                       !.status = 401,
                       !.detail = <<"supabase_and_keycloak_failed",
                                    outcome.supabase_error, outcome.keycloak_error>>]
    /\ pc' = "done"
    /\ UNCHANGED <<auth_aside, calls, outcome, fn_out>>

is_keycloak_provider(user) == "keycloak" \in user.identities

\* dependencies.py lines 138-142 with _fetch_keycloak_roles (lines 51-72);
\* fetch_user_roles answers [] when the roles API fails
FetchRoles ==
    /\ pc = "roles"
    /\ IF fn_in.entry # "with_roles"
       THEN UNCHANGED <<fn_out, calls>>
       ELSE IF ~is_keycloak_provider(fn_out) \/ ~fn_out.metadata
       THEN /\ fn_out' = [fn_out EXCEPT !.roles_set = TRUE]
            /\ calls' = calls
       ELSE /\ fn_out' = [fn_out EXCEPT
                             !.roles_set = TRUE,
                             !.keycloak_roles = IF fn_in.roles_api = "ok"
                                                THEN <<"role">> ELSE <<>>]
            /\ calls' = Append(calls, "keycloak.fetch_user_roles")
    /\ pc' = IF fn_in.entry = "user_client" THEN "user_client" ELSE "done"
    /\ UNCHANGED <<auth_aside, outcome, response>>

\* models/auth.py lines 136-144
has_supabase_compatible_token(user) == user.authentication_method = "supabase"

\* get_user_client deciding on the identity provider of the user
get_user_client_by_provider ==
    /\ pc = "user_client"
    /\ IF is_keycloak_provider(fn_out)
       THEN /\ response' = [NoAuthResponse EXCEPT
                               !.status = 400, !.detail = <<"direct_keycloak_token">>]
            /\ calls' = calls
       ELSE /\ response' = [NoAuthResponse EXCEPT !.client = "user_scoped"]
            /\ calls' = Append(calls, "supabase.create_user_client")
    /\ pc' = "done"
    /\ UNCHANGED <<auth_aside, outcome, fn_out>>

\* dependencies.py lines 213-252
get_user_client ==
    /\ pc = "user_client"
    /\ IF ~has_supabase_compatible_token(fn_out)
       THEN /\ response' = [NoAuthResponse EXCEPT
                               !.status = 400, !.detail = <<"direct_keycloak_token">>]
            /\ calls' = calls
       ELSE /\ response' = [NoAuthResponse EXCEPT !.client = "user_scoped"]
            /\ calls' = Append(calls, "supabase.create_user_client")
    /\ pc' = "done"
    /\ UNCHANGED <<auth_aside, outcome, fn_out>>

NextAuth ==
    \/ TrySupabase
    \/ KeycloakDecode
    \/ KeycloakVerify
    \/ KeycloakClaims
    \/ BothFailed
    \/ FetchRoles
    \/ get_user_client

SpecAuth == InitAuth /\ [][NextAuth]_vars

\* how often the operation op has been made
Made(op) == Cardinality({j \in DOMAIN calls : calls[j] = op})

\* the chain has handed a user to its caller
UserReturned == pc \in {"user_client", "done"} /\ fn_out # NoUser

----------------------------------------------------------------------------
(* Properties of the authentication chain *)

KeycloakOps ==
    {"keycloak.decode_unverified", "keycloak.jwks_fetch", "keycloak.verify_signature"}

\* C21: Supabase is attempted first and exactly once; Keycloak authentication
\* is attempted at most once, only after the Supabase attempt has failed and
\* never when Supabase succeeded; when Supabase accepts the token the user
\* returned is the Supabase user.
C21_SupabaseFirstKeycloakFallback ==
    /\ Made("supabase.get_user") <= 1
    /\ pc # "supabase" =>
          /\ Made("supabase.get_user") = 1
          /\ calls[1] = "supabase.get_user"
    /\ \A op \in KeycloakOps :
          /\ Made(op) <= 1
          /\ Made(op) = 1 =>
                /\ calls[1] = "supabase.get_user"
                /\ outcome.supabase_error # ""
                /\ fn_in.supabase = "reject"
    /\ (fn_in.supabase = "accept" /\ UserReturned) =>
          fn_out.authentication_method = "supabase"

\* C21 witness: Supabase refused the token, Keycloak was then tried once and
\* accepted it.
C21_Witness ==
    /\ pc = "done"
    /\ calls = <<"supabase.get_user", "keycloak.decode_unverified",
                 "keycloak.jwks_fetch", "keycloak.verify_signature">>
    /\ fn_out.authentication_method = "keycloak"

\* what Keycloak makes of the token: validate_keycloak_jwt returns a user
KeycloakAccepts ==
    /\ fn_in.decodable
    /\ fn_in.iss = "trusted"
    /\ fn_in.signature = "good"
    /\ fn_in.client # "other"
    /\ fn_in.sub

C23_UserClientByAuthenticationMethod ==
    (pc = "done" /\ fn_in.entry = "user_client" /\ fn_out # NoUser) =>
        /\ response.status = 400 <=> fn_out.authentication_method = "keycloak"
        /\ fn_out.authentication_method = "supabase" =>
              /\ response.client = "user_scoped"
              /\ response.status = 0
              /\ Made("supabase.create_user_client") = 1
        /\ fn_out.authentication_method = "keycloak" =>
              /\ response.client = ""
              /\ Made("supabase.create_user_client") = 0

\* C23 witness: a user whose identity provider is keycloak but who
\* authenticated through Supabase received a user-scoped client.
C23_Witness ==
    /\ pc = "done"
    /\ fn_in.entry = "user_client"
    /\ fn_out.authentication_method = "supabase"
    /\ is_keycloak_provider(fn_out)
    /\ response.client = "user_scoped"

\* C27: a token whose issuer is missing or is not the configured realm is
\* refused before any JWKS fetch or signature verification, and every failure
\* of validate_keycloak_jwt (undecodable token, issuer, signing key,
\* signature, client, subject) is a 401 and never a returned user.
C27_IssuerCheckedFirst ==
    /\ (Made("keycloak.decode_unverified") = 1 /\ pc # "keycloak_decode"
          /\ fn_in.decodable /\ fn_in.iss # "trusted") =>
          /\ Made("keycloak.jwks_fetch") = 0
          /\ Made("keycloak.verify_signature") = 0
          /\ outcome.keycloak_error \in {"missing_issuer", "untrusted_issuer"}
    /\ Made("keycloak.jwks_fetch") = 1 => fn_in.iss = "trusted"
    /\ (Made("keycloak.decode_unverified") = 1
          /\ pc \notin {"keycloak_decode", "keycloak_verify", "keycloak_claims"}
          /\ ~KeycloakAccepts) =>
          /\ outcome.keycloak_status = 401
          /\ outcome.keycloak_error # ""
          /\ fn_out = NoUser
    /\ outcome.keycloak_status \in {0, 401}
    /\ outcome.keycloak_status = 401 => (fn_out = NoUser /\ ~KeycloakAccepts)

\* C27 witness: a token of a foreign issuer refused with 401 after the
\* unverified decode alone.
C27_Witness ==
    /\ pc = "done"
    /\ fn_in.iss = "other"
    /\ calls = <<"supabase.get_user", "keycloak.decode_unverified">>
    /\ outcome.keycloak_error = "untrusted_issuer"
    /\ outcome.keycloak_status = 401
    /\ response.status = 401

----------------------------------------------------------------------------
(* The per-pillar calculators of services/ee.py, fv.py, rei.py, sei.py, uc.py
   and their endpoints.  fn_in is the request, outcome what the calculator
   ended in, response what the endpoint answered. *)

\* the KPIs each calculator takes, in the order of its results
LegacyKeys(p) ==
    CASE p = "EE" -> EEKeys
      [] p = "FV" -> <<"ii_kpi", "aoc_kpi", "irr_kpi", "npv_kpi">>
      [] p = "REI" -> REIKeys
      [] p = "SEI" -> SEIKeys
      [] p = "UC" -> UCKeys

\* no_pillar of each calculator
no_pillar == [EE |-> 4, FV |-> 4, REI |-> 3, SEI |-> 2, UC |-> 2]

\* the strings the if / elif chains compare the profile with
legacy_profiles == {"Environment-Oriented", "Comfort-Oriented", "Financally-Oriented"}

\* pillar_score of the if / elif chains
LegacyScore(p, prof) ==
    LET row == CASE p = "EE" -> <<3, 2, 2>>
                 [] p = "FV" -> <<5, 3, 1>>
                 [] p = "REI" -> <<2, 5, 3>>
                 [] p = "SEI" -> <<1, 4, 5>>
                 [] p = "UC" -> <<4, 1, 4>>
    IN CASE prof = "Environment-Oriented" -> row[1]
         [] prof = "Comfort-Oriented" -> row[2]
         [] prof = "Financally-Oriented" -> row[3]

\* the request of an endpoint: the first KPI of the pillar has value v, the
\* others 2, and every KPI has the bounds <<mn, mx>>
PillarRequests ==
    [entry : {"service", "endpoint"},
     pillar : Range(Pillars),
     profile : valid_profiles \cup legacy_profiles \cup {"Bogus"},
     v : 0..4,
     bounds : {<<0, 4>>, <<1, 3>>, <<2, 2>>}]

LegacyValue(req, k) == IF k = LegacyKeys(req.pillar)[1] THEN req.v ELSE 2

\* a calculator: the normalisations first (a zero width divides by zero), then
\* the profile chain, whose else branch only prints and leaves pillar_score
\* unbound, then the weight
LegacyCalculate(req) ==
    IF req.bounds[2] = req.bounds[1]
    THEN Raised("ZeroDivisionError", "division_by_zero", "", "")
    ELSE IF req.profile \notin legacy_profiles
    THEN Raised("UnboundLocalError", "pillar_score_unbound", "", "")
    ELSE Returned(
            [weight |-> (LegacyScore(req.pillar, req.profile) * WeightUnit)
                           \div (score_total * no_pillar[req.pillar]),
             normalized |->
                [j \in DOMAIN LegacyKeys(req.pillar) |->
                    Normalize(LegacyKeys(req.pillar)[j],
                              LegacyValue(req, LegacyKeys(req.pillar)[j]),
                              req.bounds[1], req.bounds[2])]])

NoPillarResponse == [status |-> 0, detail |-> "", weight |-> 0, normalized |-> <<>>]

InitPillar ==
    /\ via = "pillar"
    /\ fn_in \in PillarRequests
    /\ pc = "call"
    /\ outcome = NoOutcome
    /\ response = NoPillarResponse
    /\ fn_out = <<>>
    /\ calls = <<>>
    /\ credentials = "none"
    /\ profile = ""
    /\ technologies = <<>>
    /\ mins_maxes = EmptyDict
    /\ i = 0
    /\ cur_w = EmptyDict
    /\ cur_n = EmptyDict
    /\ weighted_by_tech = <<>>

pillar_aside == <<via, profile, technologies, mins_maxes, i, cur_w, cur_n,
                  weighted_by_tech, credentials, calls, fn_in, fn_out>>

CallCalculator ==
    /\ pc = "call"
    /\ outcome' = LegacyCalculate(fn_in)
    /\ pc' = IF fn_in.entry = "service" THEN "done" ELSE "respond"
    /\ UNCHANGED <<pillar_aside, response>>

\* the endpoints whose response is built as XResponse(x=x_value, input=request):
\* none of the required fields of the response model is given
ResponseMisbuilt == {"EE", "FV", "REI"}

\* the rest of an endpoint: the response model, and the except clause that
\* answers 400 for every exception of the try block
PillarRespond ==
    /\ pc = "respond"
    /\ response' =
          IF outcome.kind = "raised"
          THEN [NoPillarResponse EXCEPT !.status = 400, !.detail = outcome.err]
          ELSE IF fn_in.pillar \in ResponseMisbuilt
          THEN [NoPillarResponse EXCEPT !.status = 400,
                                        !.detail = "response_fields_missing"]
          ELSE [NoPillarResponse EXCEPT !.status = 200,
                                        !.weight = outcome.results.weight,
                                        !.normalized = outcome.results.normalized]
    /\ pc' = "done"
    /\ UNCHANGED <<pillar_aside, outcome>>

NextPillarCall ==
    \/ CallCalculator
    \/ PillarRespond

SpecPillar == InitPillar /\ [][NextPillarCall]_vars

\* C24: a per-pillar calculator accepts exactly the profiles the engine
\* accepts and, for the same pillar, profile, values and bounds, yields the
\* weight and the normalised values the engine computes for that pillar.
C24_CalculatorsAgreeWithEngine ==
    (pc # "call" /\ fn_in.bounds[2] > fn_in.bounds[1]) =>
        /\ outcome.kind = "returned" <=> fn_in.profile \in valid_profiles
        /\ outcome.kind = "returned" =>
              /\ outcome.results.weight =
                    pillar_weight(PillarScore(fn_in.pillar, fn_in.profile),
                                  Len(PillarKeys(fn_in.pillar)))
              /\ outcome.results.normalized =
                    [j \in DOMAIN PillarKeys(fn_in.pillar) |->
                        Normalize(PillarKeys(fn_in.pillar)[j],
                                  LegacyValue(fn_in, PillarKeys(fn_in.pillar)[j]),
                                  fn_in.bounds[1], fn_in.bounds[2])]

\* C30: a per-pillar endpoint answers a request with a recognised profile and
\* max > min with a success carrying the weight and the normalised values of
\* the pillar; 400 is answered only when the calculation failed.
C30_PillarEndpointSucceeds ==
    (pc = "done" /\ fn_in.entry = "endpoint") =>
        /\ (fn_in.profile \in valid_profiles /\ fn_in.bounds[2] > fn_in.bounds[1]) =>
              /\ response.status = 200
              /\ response.weight > 0
              /\ Len(response.normalized) = Len(PillarKeys(fn_in.pillar))
        /\ response.status = 400 => outcome.kind = "raised"

----------------------------------------------------------------------------
(* Order of validation *)

\* C25: with a valid profile, a request that has both faulty bounds (a KPI
\* missing, or max <= min) and a technology missing a KPI is answered with the
\* bounds error, not with the missing-KPI error.
C25_BoundsErrorBeforeMissingKpi ==
    (pc = "done" /\ profile \in valid_profiles /\ ~BoundsValid(mins_maxes)
       /\ MissingKpi) =>
        /\ via = "engine" =>
              /\ outcome.kind = "raised"
              /\ outcome.err \in {"missing_bounds", "invalid_bounds"}
        /\ via = "route" =>
              /\ response.status = 422
              /\ response.detail \in {"missing_bounds", "invalid_bounds"}

----------------------------------------------------------------------------
(* The degenerate case S_plus + S_minus = 0 *)

\* the 17 raw KPI values of a technology
RawKpis(tech) == [k \in KpiSet |-> tech[k]]

\* the 17 normalised values of a technology (lines 177-216)
NormalizedKpis(tech, bounds) ==
    [k \in KpiSet |-> Normalize(k, tech[k], bounds[k][1], bounds[k][2])]

Degenerate(row) == row.S_plus_sq = 0 /\ row.S_minus_sq = 0

\* C26 (as claimed): in a successful ranking a technology has
\* S_plus + S_minus = 0 only when the request has exactly one technology or
\* all its technologies have the same 17 raw KPI values.
C26_DegenerateOnlyWhenIdentical ==
    (outcome.kind = "returned" /\ \E j \in DOMAIN Results : Degenerate(Results[j])) =>
        \/ Len(technologies) = 1
        \/ \A a, b \in DOMAIN technologies :
              RawKpis(technologies[a]) = RawKpis(technologies[b])

\* C26 (amended): in a successful ranking a technology has
\* S_plus + S_minus = 0 only when the request has exactly one technology or
\* all its technologies have the same 17 normalised (clamped) KPI values;
\* their raw values may differ where they are clamped to the same bound.
C26_DegenerateOnlyWhenSameNormalized ==
    (outcome.kind = "returned" /\ \E j \in DOMAIN Results : Degenerate(Results[j])) =>
        \/ Len(technologies) = 1
        \/ \A a, b \in DOMAIN technologies :
              NormalizedKpis(technologies[a], mins_maxes) =
                 NormalizedKpis(technologies[b], mins_maxes)

\* C26 witness: two technologies with different raw values, both beyond the
\* maximum of a KPI, ranked with S_plus = S_minus = 0 and closeness 0.
C26_Witness ==
    /\ outcome.kind = "returned"
    /\ Len(technologies) = 2
    /\ RawKpis(technologies[1]) # RawKpis(technologies[2])
    /\ \A j \in DOMAIN Results : Degenerate(Results[j]) /\ Results[j].closeness = 0

----------------------------------------------------------------------------
(* Ties in the ranking *)

\* the rows of a sequence whose closeness is c, in the order of the sequence
WithCloseness(rows, c) == SelectSeq(rows, LAMBDA r : r.closeness = c)

\* the result rows in the order of the request, before results.sort
Unsorted == ScoreRows(weighted_by_tech)

\* C28: technologies with equal closeness keep their input order in the
\* ranking: the rows of any one closeness appear in the result in the order
\* in which their technologies appear in the request.
C28_TiesKeepInputOrder ==
    (outcome.kind = "returned" /\ technologies # <<>>) =>
        /\ Len(weighted_by_tech) = Len(technologies)
        /\ \A j \in DOMAIN technologies :
              Unsorted[j]["name"] = technologies[j]["name"]
        /\ \A j \in DOMAIN Unsorted :
              WithCloseness(Results, Unsorted[j].closeness) =
                 WithCloseness(Unsorted, Unsorted[j].closeness)

\* C28 witness: two technologies of different names tie and the one named
\* first in the request is first in the result.
C28_Witness ==
    /\ outcome.kind = "returned"
    /\ Len(technologies) = 2
    /\ technologies[1]["name"] # technologies[2]["name"]
    /\ Results[1].closeness = Results[2].closeness
    /\ Results[1]["name"] = technologies[1]["name"]
    /\ Results[2]["name"] = technologies[2]["name"]

----------------------------------------------------------------------------
(* The weights as rounded numbers *)

\* pillar_weight computes a rounded quotient times a rounded reciprocal; the
\* weights are modelled here as binary fractions of FracBits bits, each
\* operation rounded to the nearest unit as a float operation is.
FracBits == 10

One == 2 ^ FracBits

RoundDiv(a, b) == (2 * a + b) \div (2 * b)

\* pillar_weight giving every KPI the whole weight of its pillar
pillar_weight_rounded_undivided(pillar_score, no_kpis_in_pillar) ==
    RoundDiv(pillar_score * One, score_total)

\* lines 31-33: (pillar_score / score_total) * (1.0 / no_kpis_in_pillar)
pillar_weight_rounded(pillar_score, no_kpis_in_pillar) ==
    RoundDiv(RoundDiv(pillar_score * One, score_total)
                * RoundDiv(One, no_kpis_in_pillar), One)

\* a profile and one normalised score
WeightInputs == [profile : valid_profiles, n : 0..100]

InitWeights ==
    /\ NoRequest
    /\ pc = "apply"
    /\ fn_in \in WeightInputs
    /\ fn_out = <<>>

\* the five calculators' weights for the profile, and the weighted value of
\* the score under each KPI (lines 218-245)
ApplyWeights ==
    /\ pc = "apply"
    /\ LET score == [p \in Range(Pillars) |-> PillarScore(p, fn_in.profile)]
           w == [p \in Range(Pillars) |->
                    pillar_weight_rounded(score[p], Len(PillarKeys(p)))]
       IN fn_out' = [score |-> score,
                     exact |-> [p \in Range(Pillars) |->
                                   pillar_weight(score[p], Len(PillarKeys(p)))],
                     w |-> w,
                     weighted |-> [k \in KpiSet |-> w[PillarOf(k)] * fn_in.n]]
    /\ pc' = "applied"
    /\ UNCHANGED <<request, fn_in>>

SpecWeights == InitWeights /\ [][ApplyWeights]_vars

\* the sum over the 17 KPIs of the weights w of their pillars
WeightSum(w) == SumSeq([j \in DOMAIN KpiKeys |-> w[PillarOf(KpiKeys[j])]])

\* C29 (as claimed): the weights the engine applies sum to exactly 1 over the
\* 17 KPIs.
C29_WeightsSumToExactlyOne ==
    pc = "applied" => WeightSum(fn_out.w) = One

\* C29 (amended): for each profile the five pillar scores are between 1 and 5
\* and sum to 15, so the weights score / 15 / kpi_count sum to 1 over the 17
\* KPIs as exact fractions; the rounded weights the engine applies sum to 1
\* within one rounding unit per KPI, none of them is zero, and every weighted
\* value lies in [0, 100 * weight].
C29_WeightsSumToOneUpToRounding ==
    pc = "applied" =>
        /\ \A p \in Range(Pillars) : fn_out.score[p] \in 1..5
        /\ SumSeq([j \in DOMAIN Pillars |-> fn_out.score[Pillars[j]]]) = score_total
        /\ WeightSum(fn_out.exact) = WeightUnit
        /\ WeightSum(fn_out.w) - One \in (0 - Len(KpiKeys))..Len(KpiKeys)
        /\ \A k \in KpiSet :
              /\ fn_out.w[PillarOf(k)] > 0
              /\ fn_out.weighted[k] >= 0
              /\ fn_out.weighted[k] <= 100 * fn_out.w[PillarOf(k)]

\* C29 witness: the weights of a profile applied to the top score 100, whose
\* rounded sum is not one.
C29_Witness ==
    /\ pc = "applied"
    /\ fn_in.n = 100
    /\ WeightSum(fn_out.w) # One
    /\ \E k \in KpiSet : fn_out.weighted[k] = 100 * fn_out.w[PillarOf(k)]

====
